---- MODULE Spec2Model ----
(***************************************************************************)
(* Model of the Patreon API client (client.go): the transport helper       *)
(* Client.get and the four fetch operations that assemble typed entities   *)
(* from a decoded JSON:API compound document.                              *)
(***************************************************************************)
EXTENDS Integers, Sequences, FiniteSets, TLC

VARIABLES pc, op, input, resp, result, err, log, idx, campaigns, lookups

vars == <<pc, op, input, resp, result, err, log, idx, campaigns, lookups>>

(***************************************************************************)
(* Bounds of the model.                                                    *)
(***************************************************************************)
MaxRefs == 2       \* relationship identifiers carried by one primary resource
MaxIncluded == 2   \* resources in the included side-table
MaxData == 2       \* elements of the primary data array of a list response

StatusOK == 200

Ids == {"1", "2"}

(***************************************************************************)
(* Go values: nil pointers, slices (a nil slice differs from an empty     *)
(* non-nil one), append, and the lookup of a missing map key.              *)
(***************************************************************************)
Nil == [nil |-> TRUE]

NilSlice == [isNil |-> TRUE, elems |-> <<>>]

MakeSlice(s) == [isNil |-> FALSE, elems |-> s]

GoAppend(slice, x) == [isNil |-> FALSE, elems |-> Append(slice.elems, x)]

MapGet(m, k) == IF k \in DOMAIN m THEN m[k] ELSE Nil

EmptyMap == [k \in {} |-> Nil]

(***************************************************************************)
(* The decoded document.  A relationship reference is a record {type, id}; *)
(* a to-one relationship's Data is Nil or one reference, a to-many         *)
(* relationship's Data is a slice of references (nil for JSON null).       *)
(* resp.Included holds one map from id to entity per resource type.        *)
(***************************************************************************)
Ref(t, i) == [type |-> t, id |-> i]

Entity(t, i) == [type |-> t, id |-> i]

\* A tier of the side-table carries the back-reference to its campaign
\* ("" when it has none).
TierEntity(i, c) == [type |-> "tier", id |-> i, campaign |-> c]

AttrValues == {Nil, [decoded |-> TRUE]}

\* To-one Data naming the declared type, or another type with a colliding id.
ToOne(declared, other) ==
    {Nil} \cup {Ref(declared, i) : i \in Ids} \cup {Ref(other, "1")}

RefSeqs(declared) ==
    UNION {[1..n -> {Ref(declared, i) : i \in Ids}] : n \in 1..MaxRefs}

\* To-many Data: JSON null, the empty list, or a list of references.
ToMany(declared) ==
    {NilSlice, MakeSlice(<<>>)} \cup {MakeSlice(s) : s \in RefSeqs(declared)}

MapOf(S, t) ==
    [i \in {e.id : e \in {x \in S : x.type = t}} |->
        CHOOSE e \in S : e.type = t /\ e.id = i]

IncludedOf(S) ==
    [addresses   |-> MapOf(S, "address"),
     campaigns   |-> MapOf(S, "campaign"),
     users       |-> MapOf(S, "user"),
     benefits    |-> MapOf(S, "benefit"),
     goals       |-> MapOf(S, "goal"),
     tiers       |-> MapOf(S, "tier"),
     memberships |-> MapOf(S, "member")]

Tiers == {TierEntity("1", ""), TierEntity("1", "1"), TierEntity("2", "")}

Plain(types) == {Entity(t, i) : t \in types, i \in Ids}

\* Side-tables of at most MaxIncluded resources, one resource per (type, id).
SideTables(universe) ==
    {IncludedOf(S) : S \in
        {T \in SUBSET universe :
            /\ Cardinality(T) <= MaxIncluded
            /\ \A a, b \in T : (a.type = b.type /\ a.id = b.id) => a = b}}

Count(data) == IF data = Nil THEN 0 ELSE 1

NumRefs(rel) ==
    Count(rel.creator) + Len(rel.benefits.elems) + Len(rel.goals.elems)
        + Len(rel.tiers.elems)

\* The relationships of a campaign resource, MaxRefs identifiers at most.
CampaignRels ==
    {r \in [creator  : ToOne("user", "tier"),
            benefits : ToMany("benefit"),
            goals    : ToMany("goal"),
            tiers    : ToMany("tier")] : NumRefs(r) <= MaxRefs}

CampaignItems == [id : Ids, attributes : AttrValues, relationships : CampaignRels]

ZeroCampaignItem ==
    [id |-> "", attributes |-> Nil,
     relationships |-> [creator |-> Nil, benefits |-> NilSlice,
                        goals |-> NilSlice, tiers |-> NilSlice]]

CampaignIncluded == SideTables(Plain({"user", "benefit", "goal"}) \cup Tiers)

\* The zero value of campaignResponse, and the documents a body can hold.
ZeroCampaignResponse == [data |-> ZeroCampaignItem, included |-> IncludedOf({})]

CampaignDocs ==
    {ZeroCampaignResponse} \cup [data : CampaignItems, included : CampaignIncluded]

\* The document an error body holds besides its "errors" member.
CampaignSample1 ==
    [data |-> [id |-> "1", attributes |-> [decoded |-> TRUE],
               relationships |-> [creator |-> Ref("user", "1"),
                                  benefits |-> MakeSlice(<<Ref("benefit", "1")>>),
                                  goals |-> NilSlice, tiers |-> NilSlice]],
     included |-> IncludedOf({Entity("user", "1"), Entity("benefit", "1")})]

CampaignSample == {CampaignSample1}

\* A list response: the k-th element of data has id k; its relationships are
\* null or non-empty, and the document carries MaxRefs identifiers at most.
ListRels ==
    {r \in CampaignRels :
        /\ r.creator = Nil \/ r.creator.type = "user"
        /\ \A s \in {r.benefits, r.goals, r.tiers} : s.isNil \/ s.elems # <<>>}

\* The sequences of n relationship records carrying budget identifiers at most.
RECURSIVE RelLists(_, _)
RelLists(n, budget) ==
    IF n = 0
    THEN {<<>>}
    ELSE UNION {{Append(l, r) : l \in RelLists(n - 1, budget - NumRefs(r))} :
                    r \in {x \in ListRels : NumRefs(x) <= budget}}

\* Every second element comes without attributes.
ListData ==
    UNION {{[k \in 1..n |->
                [id            |-> ToString(k),
                 attributes    |-> IF k % 2 = 1 THEN [decoded |-> TRUE] ELSE Nil,
                 relationships |-> r[k]]] : r \in RelLists(n, MaxRefs)} :
           n \in 0..MaxData}

ListIncluded ==
    SideTables({Entity("user", "1"), Entity("benefit", "1"), Entity("benefit", "2"),
                Entity("goal", "1"), TierEntity("1", "1")})

ZeroCampaignListResponse == [data |-> <<>>, included |-> IncludedOf({})]

CampaignListDocs == [data : ListData, included : ListIncluded]

CampaignListSample ==
    {[data |-> <<CampaignSample1.data>>, included |-> CampaignSample1.included]}

(***************************************************************************)
(* The identity and member documents.                                      *)
(***************************************************************************)
IdentityData ==
    [id : Ids, attributes : AttrValues,
     relationships : [campaign : ToOne("campaign", "user")]]

ZeroIdentityResponse ==
    [data |-> [id |-> "", attributes |-> Nil, relationships |-> [campaign |-> Nil]],
     included |-> IncludedOf({})]

IdentityDocs ==
    {ZeroIdentityResponse} \cup
    [data : IdentityData, included : SideTables(Plain({"campaign", "member"}))]

IdentitySample ==
    {[data |-> [id |-> "1", attributes |-> [decoded |-> TRUE],
                relationships |-> [campaign |-> Ref("campaign", "1")]],
      included |-> IncludedOf({Entity("campaign", "1"), Entity("member", "1")})]}

\* The member's currently_entitled_tiers relationship block as the document
\* carries it: absent, or present with its list of identifiers.
NoBlock == [present |-> FALSE, data |-> NilSlice]

Block(s) == [present |-> TRUE, data |-> MakeSlice(s)]

MemberRels ==
    {r \in [address : ToOne("address", "user"),
            campaign : ToOne("campaign", "tier"),
            user : ToOne("user", "campaign"),
            currentlyEntitledTiers : {NoBlock, Block(<<>>), Block(<<Ref("tier", "1")>>)}] :
        Count(r.address) + Count(r.campaign) + Count(r.user)
            + Len(r.currentlyEntitledTiers.data.elems) <= MaxRefs}

ZeroMemberResponse ==
    [data |-> [id |-> "", attributes |-> Nil,
               relationships |-> [address |-> Nil, campaign |-> Nil, user |-> Nil,
                                  currentlyEntitledTiers |-> NoBlock]],
     included |-> IncludedOf({})]

MemberDocs ==
    {ZeroMemberResponse} \cup
    [data : [id : Ids, attributes : AttrValues, relationships : MemberRels],
     included : SideTables(Plain({"address", "campaign", "user"}) \cup Tiers)]

MemberSample ==
    {[data |-> [id |-> "1", attributes |-> [decoded |-> TRUE],
                relationships |-> [address |-> Nil, campaign |-> Nil,
                                   user |-> Ref("user", "1"),
                                   currentlyEntitledTiers |-> NoBlock]],
      included |-> IncludedOf({Entity("user", "1"), TierEntity("1", "")})]}

(***************************************************************************)
(* The transport collaborator's answer to one request, and the errors the  *)
(* client returns.                                                         *)
(***************************************************************************)
NoError == [kind |-> "none"]

URLError == [kind |-> "url"]

TransportError(cause) == [kind |-> "transport", cause |-> cause]

DecodeError == [kind |-> "decode"]

\* ErrorResponse: the structured error items decoded from the body.
ErrorResponse(items) == [kind |-> "api", errors |-> items]

ErrorItems ==
    {[code |-> 1, title |-> "invalid_token"], [code |-> 2, title |-> "not_found"]}

ErrorLists == {<<>>} \cup {<<e>> : e \in ErrorItems}
                \cup {p \in ErrorItems \X ErrorItems : p[1] # p[2]}

\* A body that is no JSON, or a JSON object with its "errors" member and the
\* document (data, included) it holds.
Garbage == [json |-> FALSE]

JSONBody(errors, doc) == [json |-> TRUE, errors |-> errors, doc |-> doc]

Failures == {[fail |-> TRUE, cause |-> c] : c \in {"timeout", "refused"}}

Response(status, body) == [fail |-> FALSE, status |-> status, body |-> body]

\* What the transport may answer: a failure, a 200 with a document or with
\* garbage, another status with an error body that also holds a document.
Transports(docs, sample) ==
    Failures
    \cup {Response(StatusOK, b) : b \in {Garbage} \cup {JSONBody(<<>>, d) : d \in docs}}
    \cup {Response(s, b) : s \in {201, 401},
                           b \in {Garbage} \cup
                                 {JSONBody(e, d) : e \in ErrorLists, d \in sample}}

\* url.ParseRequestURI rejects a path holding an invalid escape.
ParseRequestURI(path) == \A k \in 1..Len(path) : path[k] # "%zz"

\* get, were it to try the request a second time when it fails.
ClientGetRetry(path, transport, zero) ==
    IF ~ParseRequestURI(path)
    THEN [err |-> URLError, v |-> zero, log |-> <<"buildURL">>]
    ELSE IF transport.fail
    THEN [err |-> TransportError(transport.cause), v |-> zero,
          log |-> <<"buildURL", "request", "request">>]
    ELSE IF transport.status # StatusOK
    THEN [err |-> IF transport.body.json
                  THEN ErrorResponse(transport.body.errors)
                  ELSE DecodeError,
          v |-> zero,
          log |-> <<"buildURL", "request", "status", "decodeErrors">>]
    ELSE [err |-> IF transport.body.json THEN NoError ELSE DecodeError,
          v |-> IF transport.body.json THEN transport.body.doc ELSE zero,
          log |-> <<"buildURL", "request", "status", "decodeResponse">>]

\* get, were it to return the decoded errors only when there are some, and to
\* go on to the document otherwise.
ClientGetSkipEmptyErrors(path, transport, zero) ==
    IF ~ParseRequestURI(path)
    THEN [err |-> URLError, v |-> zero, log |-> <<"buildURL">>]
    ELSE IF transport.fail
    THEN [err |-> TransportError(transport.cause), v |-> zero,
          log |-> <<"buildURL", "request">>]
    ELSE IF transport.status # StatusOK /\ ~transport.body.json
    THEN [err |-> DecodeError, v |-> zero,
          log |-> <<"buildURL", "request", "status", "decodeErrors">>]
    ELSE IF transport.status # StatusOK /\ transport.body.errors # <<>>
    THEN [err |-> ErrorResponse(transport.body.errors), v |-> zero,
          log |-> <<"buildURL", "request", "status", "decodeErrors">>]
    ELSE [err |-> IF transport.body.json THEN NoError ELSE DecodeError,
          v |-> IF transport.body.json THEN transport.body.doc ELSE zero,
          log |-> <<"buildURL", "request", "status", "decodeResponse">>]

\* Client.get: the error returned, the response structure v after the call
\* (zero is its value before) and the steps performed, in order.  A body that
\* fails to decode on status 200 leaves v at zero here: the callers return
\* nil without reading it.
ClientGet(path, transport, zero) ==
    IF ~ParseRequestURI(path)
    THEN [err |-> URLError, v |-> zero, log |-> <<"buildURL">>]
    ELSE IF transport.fail
    THEN [err |-> TransportError(transport.cause), v |-> zero,
          log |-> <<"buildURL", "request">>]
    ELSE IF transport.status # StatusOK
    THEN [err |-> IF transport.body.json
                  THEN ErrorResponse(transport.body.errors)
                  ELSE DecodeError,
          v |-> zero,
          log |-> <<"buildURL", "request", "status", "decodeErrors">>]
    ELSE [err |-> IF transport.body.json THEN NoError ELSE DecodeError,
          v |-> IF transport.body.json THEN transport.body.doc ELSE zero,
          log |-> <<"buildURL", "request", "status", "decodeResponse">>]

(***************************************************************************)
(* Linking: the loop "for _, relation := range Data { append(field,        *)
(* index[relation.ID]) }", with the number of index lookups it makes.      *)
(***************************************************************************)
NoLinks == [slice |-> NilSlice, lookups |-> 0]

\* The loop, were it to resolve the back-reference of each entity it links.
RECURSIVE LinkManyReassemble(_, _, _)
LinkManyReassemble(index, data, acc) ==
    IF data = <<>>
    THEN acc
    ELSE LET e == MapGet(index, Head(data).id)
         IN  LinkManyReassemble(index, Tail(data),
                [slice   |-> GoAppend(acc.slice, e),
                 lookups |-> acc.lookups + 1
                               + (IF "campaign" \in DOMAIN e /\ e.campaign # ""
                                  THEN 1 ELSE 0)])

RECURSIVE LinkMany(_, _, _)
LinkMany(index, data, acc) ==
    IF data = <<>>
    THEN acc
    ELSE LinkMany(index, Tail(data),
                  [slice   |-> GoAppend(acc.slice, MapGet(index, Head(data).id)),
                   lookups |-> acc.lookups + 1])

\* The link, were the map to hold values and the field their address: a
\* missing key gives a pointer to the zero entity.
LinkOneZeroValue(index, data) ==
    IF data # Nil
    THEN [ptr |-> IF data.id \in DOMAIN index THEN index[data.id] ELSE Entity("", ""),
          lookups |-> 1]
    ELSE [ptr |-> Nil, lookups |-> 0]

\* "if rel.Data != nil { field = index[rel.Data.ID] }"
LinkOne(index, data) ==
    IF data # Nil
    THEN [ptr |-> MapGet(index, data.id), lookups |-> 1]
    ELSE [ptr |-> Nil, lookups |-> 0]

\* GetCampaignByID, after a successful get: the campaign and the lookups made.
CampaignByID(r) ==
    LET rel      == r.data.relationships
        creator  == LinkOne(r.included.users, rel.creator)
        benefits == LinkMany(r.included.benefits, rel.benefits.elems, NoLinks)
        goals    == LinkMany(r.included.goals, rel.goals.elems, NoLinks)
        tiers    == LinkMany(r.included.tiers, rel.tiers.elems, NoLinks)
    IN  [campaign |-> [ID         |-> r.data.id,
                       Attributes |-> IF r.data.attributes # Nil
                                      THEN r.data.attributes ELSE Nil,
                       Creator    |-> creator.ptr,
                       Benefits   |-> benefits.slice,
                       Goals      |-> goals.slice,
                       Tiers      |-> tiers.slice],
         lookups  |-> creator.lookups + benefits.lookups
                        + goals.lookups + tiers.lookups]

\* The body of the loop of GetCampaigns for one element of resp.Data.
CampaignsItem(item, included) ==
    LET rel      == item.relationships
        creator  == LinkOne(included.users, rel.creator)
        benefits == LinkMany(included.benefits, rel.benefits.elems, NoLinks)
        goals    == LinkMany(included.goals, rel.goals.elems, NoLinks)
        tiers    == LinkMany(included.tiers, rel.tiers.elems, NoLinks)
    IN  [campaign |-> [ID         |-> item.id,
                       Attributes |-> IF item.attributes # Nil
                                      THEN item.attributes ELSE Nil,
                       Creator    |-> creator.ptr,
                       Benefits   |-> benefits.slice,
                       Goals      |-> goals.slice,
                       Tiers      |-> tiers.slice],
         lookups  |-> creator.lookups + benefits.lookups
                        + goals.lookups + tiers.lookups]

\* The orders in which a range over a Go map may visit its keys.
Orders(m) ==
    {o \in [1..Cardinality(DOMAIN m) -> DOMAIN m] :
        \A i, j \in DOMAIN o : o[i] = o[j] => i = j}

\* "for _, value := range m { field = append(field, value) }", visiting the
\* keys in the given order.
RECURSIVE RangeAppend(_, _, _)
RangeAppend(m, order, slice) ==
    IF order = <<>>
    THEN slice
    ELSE RangeAppend(m, Tail(order), GoAppend(slice, m[Head(order)]))

\* GetIdentity, after a successful get.
Identity(r, order) ==
    [ID          |-> r.data.id,
     Attributes  |-> r.data.attributes,
     Campaign    |-> LinkOne(r.included.campaigns, r.data.relationships.campaign).ptr,
     Memberships |-> RangeAppend(r.included.memberships, order, NilSlice)]

\* GetMemberByID, after a successful get.
MemberByID(r, order) ==
    LET rel == r.data.relationships
    IN  [ID         |-> r.data.id,
         Attributes |-> IF r.data.attributes # Nil THEN r.data.attributes ELSE Nil,
         Address    |-> LinkOne(r.included.addresses, rel.address).ptr,
         Campaign   |-> LinkOne(r.included.campaigns, rel.campaign).ptr,
         User       |-> LinkOne(r.included.users, rel.user).ptr,
         CurrentlyEntitledTiers |-> RangeAppend(r.included.tiers, order, NilSlice)]

(***************************************************************************)
(* The client and its caller.                                              *)
(***************************************************************************)
Init ==
    /\ pc = "idle"
    /\ op = ""
    /\ input = Nil
    /\ resp = Nil
    /\ result = Nil
    /\ err = NoError
    /\ log = <<>>
    /\ idx = 0
    /\ campaigns = NilSlice
    /\ lookups = 0

\* The caller's requests.  A request id the URL parser rejects is tried
\* against a few answers only, since no request is made for it.
Calls(transports) ==
    {[id |-> "1", transport |-> t] : t \in transports}
    \cup {[id |-> "%zz", transport |-> t] :
            t \in Failures \cup {Response(StatusOK, Garbage)}}

PlainCalls(transports) == {[id |-> "", transport |-> t] : t \in transports}

\* What a whole call leaves behind: the call made, the response structure,
\* the steps of get and the values returned.
Returns(name, in, g, value) ==
    /\ pc = "idle"
    /\ op' = name
    /\ input' = in
    /\ log' = g.log
    /\ resp' = g.v
    /\ err' = g.err
    /\ result' = IF g.err # NoError THEN Nil ELSE value
    /\ UNCHANGED <<pc, idx, campaigns>>

GetIdentity(in) ==
    LET g == ClientGet(<<"/api/oauth2/v2/identity">>, in.transport,
                       ZeroIdentityResponse)
    IN  \E order \in Orders(g.v.included.memberships) :
            /\ Returns("GetIdentity", in, g, Identity(g.v, order))
            /\ lookups' = IF g.err # NoError THEN 0
                          ELSE Count(g.v.data.relationships.campaign)

GetCampaignByID(in) ==
    LET g == ClientGet(<<"/api/oauth2/v2/campaigns/", in.id>>, in.transport,
                       ZeroCampaignResponse)
        a == CampaignByID(g.v)
    IN  /\ Returns("GetCampaignByID", in, g, a.campaign)
        /\ lookups' = IF g.err # NoError THEN 0 ELSE a.lookups

GetMemberByID(in) ==
    LET g == ClientGet(<<"/api/oauth2/v2/members/", in.id>>, in.transport,
                       ZeroMemberResponse)
        rel == g.v.data.relationships
    IN  \E order \in Orders(g.v.included.tiers) :
            /\ Returns("GetMemberByID", in, g, MemberByID(g.v, order))
            /\ lookups' = IF g.err # NoError THEN 0
                          ELSE Count(rel.address) + Count(rel.campaign)
                                 + Count(rel.user)

\* GetCampaigns up to the loop: the get, and make([]*Campaign, len(resp.Data)).
GetCampaigns(in) ==
    LET g == ClientGet(<<"/api/oauth2/v2/campaigns">>, in.transport,
                       ZeroCampaignListResponse)
    IN  /\ pc = "idle"
        /\ op' = "GetCampaigns"
        /\ input' = in
        /\ log' = g.log
        /\ resp' = g.v
        /\ err' = g.err
        /\ result' = IF g.err # NoError THEN NilSlice ELSE Nil
        /\ pc' = IF g.err # NoError THEN "idle" ELSE "loop"
        /\ campaigns' = IF g.err # NoError THEN NilSlice
                        ELSE MakeSlice([k \in 1..Len(g.v.data) |-> Nil])
        /\ idx' = 0
        /\ lookups' = 0

\* The iteration, were every element stored so far to point at the one
\* campaign variable of the loop.
CampaignsLoopAliased ==
    /\ pc = "loop"
    /\ idx < Len(resp.data)
    /\ LET a == CampaignsItem(resp.data[idx + 1], resp.included)
       IN  /\ campaigns' = [campaigns EXCEPT !.elems =
                              [k \in DOMAIN campaigns.elems |->
                                  IF k <= idx + 1 THEN a.campaign ELSE Nil]]
           /\ lookups' = lookups + a.lookups
    /\ idx' = idx + 1
    /\ UNCHANGED <<pc, op, input, resp, result, err, log>>

\* One iteration of the loop over resp.Data.
CampaignsLoop ==
    /\ pc = "loop"
    /\ idx < Len(resp.data)
    /\ LET a == CampaignsItem(resp.data[idx + 1], resp.included)
       IN  /\ campaigns' = [campaigns EXCEPT !.elems[idx + 1] = a.campaign]
           /\ lookups' = lookups + a.lookups
    /\ idx' = idx + 1
    /\ UNCHANGED <<pc, op, input, resp, result, err, log>>

\* "return campaigns, nil"
CampaignsReturn ==
    /\ pc = "loop"
    /\ idx = Len(resp.data)
    /\ result' = campaigns
    /\ pc' = "idle"
    /\ UNCHANGED <<op, input, resp, err, log, idx, campaigns, lookups>>

\* The caller issues again the call it made, against the same answer of the
\* transport.
Repeat ==
    /\ pc = "idle"
    /\ \/ op = "GetIdentity" /\ GetIdentity(input)
       \/ op = "GetCampaigns" /\ GetCampaigns(input)
       \/ op = "GetCampaignByID" /\ GetCampaignByID(input)
       \/ op = "GetMemberByID" /\ GetMemberByID(input)

FirstCall ==
    /\ op = ""
    /\ \/ \E in \in PlainCalls(Transports(IdentityDocs, IdentitySample)) :
             GetIdentity(in)
       \/ \E in \in PlainCalls(Transports(CampaignListDocs, CampaignListSample)) :
             GetCampaigns(in)
       \/ \E in \in Calls(Transports(CampaignDocs, CampaignSample)) :
             GetCampaignByID(in)
       \/ \E in \in Calls(Transports(MemberDocs, MemberSample)) :
             GetMemberByID(in)

Next ==
    \/ FirstCall
    \/ CampaignsLoop
    \/ CampaignsReturn
    \/ Repeat

Spec == Init /\ [][Next]_vars

\* The loop of GetCampaigns is sequential code: it runs to its return.
FairSpec == Spec /\ WF_vars(CampaignsLoop) /\ WF_vars(CampaignsReturn)

(***************************************************************************)
(* Vocabulary of the properties.                                           *)
(***************************************************************************)
CampaignOps == {"GetCampaigns", "GetCampaignByID"}

FetchOps == {"GetIdentity", "GetCampaigns", "GetCampaignByID", "GetMemberByID"}

\* A call has returned, with or without an error.
Returned == op \in FetchOps /\ pc = "idle"

Succeeded == Returned /\ err = NoError

\* The transport answered the call's request with a status.
Answered == ParseRequestURI(<<input.id>>) /\ ~input.transport.fail

NoEntity == result \in {Nil, NilSlice}

\* The primary resources of the response paired with the campaigns returned.
Assembled ==
    IF op = "GetCampaignByID"
    THEN {<<resp.data, result>>}
    ELSE {<<resp.data[k], result.elems[k]>> : k \in 1..Len(resp.data)}

ToManyNames == {"benefits", "goals", "tiers"}

FieldOf(campaign, name) ==
    CASE name = "benefits" -> campaign.Benefits
      [] name = "goals"    -> campaign.Goals
      [] name = "tiers"    -> campaign.Tiers

\* The included entities found for a list of identifiers, in identifier order.
Found(index, data) ==
    LET hits == SelectSeq(data, LAMBDA r : r.id \in DOMAIN index)
    IN  [k \in 1..Len(hits) |-> index[hits[k].id]]

\* C1: every to-many collection of an assembled campaign holds exactly the
\* included entities found for its identifiers, in identifier order: a
\* dangling identifier is skipped and no element is nil.
C1_DanglingSkipped ==
    (Succeeded /\ op \in CampaignOps) =>
        \A p \in Assembled : \A name \in ToManyNames :
            FieldOf(p[2], name).elems =
                Found(resp.included[name], p[1].relationships[name].elems)

\* The to-one fields of the entity a call returned, each with the Data of its
\* relationship and the map of the side-table the field is linked from.
ToOneLinks ==
    CASE op = "GetIdentity" ->
           {<<result.Campaign, resp.data.relationships.campaign,
              resp.included.campaigns>>}
      [] op = "GetMemberByID" ->
           {<<result.Address, resp.data.relationships.address,
              resp.included.addresses>>,
            <<result.Campaign, resp.data.relationships.campaign,
              resp.included.campaigns>>,
            <<result.User, resp.data.relationships.user, resp.included.users>>}
      [] op \in CampaignOps ->
           {<<p[2].Creator, p[1].relationships.creator, resp.included.users>> :
              p \in Assembled}

\* The transport answered 200 with a body that decodes.
Decoded ==
    /\ Answered
    /\ input.transport.status = StatusOK
    /\ input.transport.body.json

\* C2: a to-one field is the included entity when the relationship's data is
\* present and its id is in the index the field is linked from, and is absent
\* when the data is null or the reference dangles; the call then still
\* succeeds.
C2_ToOneResolved ==
    (Returned /\ Decoded) =>
        /\ err = NoError
        /\ ~NoEntity
        /\ \A l \in ToOneLinks :
              IF l[2] # Nil /\ l[2].id \in DOMAIN l[3]
              THEN l[1] = l[3][l[2].id]
              ELSE l[1] = Nil

\* A member came back with its address linked and its dangling user absent.
C2_Witness ==
    /\ Succeeded
    /\ op = "GetMemberByID"
    /\ resp.data.relationships.user = Ref("user", "2")
    /\ "2" \notin DOMAIN resp.included.users
    /\ result.User = Nil
    /\ resp.data.relationships.address = Ref("address", "1")
    /\ result.Address = Entity("address", "1")

\* C3 as stated: on a non-success status the call returns an APIError holding
\* the error items of the body, and no entity.
C3_AlwaysAPIError ==
    (Returned /\ Answered /\ input.transport.status # StatusOK) =>
        /\ NoEntity
        /\ err.kind = "api"
        /\ err = ErrorResponse(input.transport.body.errors)

\* C3, amended: on a non-success status the call returns no entity and an
\* error: the APIError holding the error items decoded from the body when the
\* body decodes, the decoding error when it does not.
C3_ErrorAndNoEntity ==
    (Returned /\ Answered /\ input.transport.status # StatusOK) =>
        /\ NoEntity
        /\ IF input.transport.body.json
           THEN err = ErrorResponse(input.transport.body.errors)
           ELSE err = DecodeError

\* A 401 whose body lists one error item and also holds a document.
C3_Witness ==
    /\ Returned /\ Answered
    /\ input.transport.status = 401
    /\ input.transport.body.json
    /\ input.transport.body.doc.included.users # EmptyMap
    /\ err = ErrorResponse(<<[code |-> 1, title |-> "invalid_token"]>>)
    /\ NoEntity

ZeroResponse ==
    CASE op = "GetIdentity"     -> ZeroIdentityResponse
      [] op = "GetCampaigns"    -> ZeroCampaignListResponse
      [] op = "GetCampaignByID" -> ZeroCampaignResponse
      [] op = "GetMemberByID"   -> ZeroMemberResponse

Steps(name) == {k \in 1..Len(log) : log[k] = name}

\* C9: a call makes one transport request at most and none when the URL is
\* rejected; a transport failure is returned as it is, with nothing decoded;
\* the status is checked before any decoding; the body is decoded into the
\* response structure only on status 200, so that any other status leaves the
\* structure as it was.
C9_OneRequestStatusFirst ==
    op \in FetchOps =>
        /\ Cardinality(Steps("request")) <= 1
        /\ ~ParseRequestURI(<<input.id>>) =>
              /\ Steps("request") = {}
              /\ err = URLError
        /\ (ParseRequestURI(<<input.id>>) /\ input.transport.fail) =>
              /\ err = TransportError(input.transport.cause)
              /\ Steps("decodeErrors") \cup Steps("decodeResponse") = {}
        /\ \A d \in Steps("decodeErrors") \cup Steps("decodeResponse") :
              \E c \in Steps("status") : \E r \in Steps("request") : r < c /\ c < d
        /\ Steps("decodeResponse") # {} =>
              (Answered /\ input.transport.status = StatusOK)
        /\ (Answered /\ input.transport.status # StatusOK) => resp = ZeroResponse
        /\ Answered => Cardinality(Steps("request")) = 1

\* Each case happened: a rejected URL, a failed request, and a non-success
\* status whose body holds a document that was not decoded.
C9_Witness ==
    /\ Returned /\ Answered
    /\ op = "GetMemberByID"
    /\ input.transport.status = 201
    /\ input.transport.body.json
    /\ input.transport.body.doc # ZeroMemberResponse
    /\ resp = ZeroMemberResponse
    /\ log = <<"buildURL", "request", "status", "decodeErrors">>

Range(f) == {f[k] : k \in DOMAIN f}

\* C4: CurrentlyEntitledTiers is filled from all the included tiers only when
\* the member's currently_entitled_tiers block is absent; a block that is
\* present and empty gives an empty collection.
C4_FallbackGated ==
    (Succeeded /\ op = "GetMemberByID") =>
        LET block == resp.data.relationships.currentlyEntitledTiers
            tiers == result.CurrentlyEntitledTiers.elems
        IN  /\ ~block.present => Range(tiers) = Range(resp.included.tiers)
            /\ (block.present /\ block.data.elems = <<>>) => tiers = <<>>

\* C5: the document that differs from the decoded one only in carrying []
\* where this one carries null, for one to-many relationship, assembles to a
\* different campaign.
C5_NullDiffersFromEmpty ==
    (Succeeded /\ op = "GetCampaignByID") =>
        \A name \in ToManyNames :
            resp.data.relationships[name] = NilSlice =>
                CampaignByID([resp EXCEPT !.data.relationships[name] =
                                              MakeSlice(<<>>)]).campaign # result

\* The to-many elements of the campaigns returned, each with its reference.
ToManyLinks ==
    UNION {{<<FieldOf(p[2], name).elems[k], p[1].relationships[name].elems[k]>> :
                k \in 1..Len(p[1].relationships[name].elems)} :
           p \in Assembled, name \in ToManyNames}

\* C6: an entity is attached to a reference only when its type and its id are
\* the reference's.
C6_ResolvedByTypeAndId ==
    Succeeded =>
        \A l \in {<<x[1], x[2]>> : x \in ToOneLinks}
                 \cup (IF op \in CampaignOps THEN ToManyLinks ELSE {}) :
            l[1] # Nil => (l[1].type = l[2].type /\ l[1].id = l[2].id)

\* C10: the same call against the same answer of the transport returns the
\* same entity, element order of Memberships and CurrentlyEntitledTiers
\* included.
C10_SameDocumentSameEntity ==
    [][(op \in {"GetIdentity", "GetMemberByID"} /\ op' = op /\ input' = input)
          => (result' = result /\ err' = err)]_vars

RECURSIVE Carried(_, _)
Carried(items, n) ==
    IF n = 0 THEN 0
    ELSE NumRefs(items[n].relationships) + Carried(items, n - 1)

\* C7: the assembly of a campaign document terminates, cyclic references of
\* the side-table or not: every identifier of the primary resources is
\* resolved by one lookup and nothing else is looked up, so that the lookups
\* number at most the primary resources times the identifiers one carries;
\* the loop of GetCampaigns can always take its next step, and each step
\* moves it to the next primary resource until none is left.
C7_AssemblyTerminates ==
    /\ [](/\ (op = "GetCampaignByID" /\ Succeeded) =>
                lookups = NumRefs(resp.data.relationships)
          /\ (op = "GetCampaigns" /\ err = NoError) =>
                /\ idx <= Len(resp.data)
                /\ lookups = Carried(resp.data, idx)
                /\ lookups <= Len(resp.data) * MaxRefs
          /\ pc = "loop" => ENABLED (CampaignsLoop \/ CampaignsReturn))
    /\ [][(pc = "loop" /\ pc' = "loop") =>
            (idx' = idx + 1 /\ idx' <= Len(resp.data))]_vars

\* Under the fairness of sequential code the loop reaches its return.
LoopReachesReturn == (pc = "loop") ~> (pc = "idle")

\* Campaign 1 references tier 1, tier 1 references campaign 1, and the list
\* came back with the tier linked.
C7_Witness ==
    /\ Succeeded
    /\ op = "GetCampaigns"
    /\ \E k \in 1..Len(resp.data) :
          /\ resp.data[k].id = "1"
          /\ resp.data[k].relationships.tiers = MakeSlice(<<Ref("tier", "1")>>)
          /\ result.elems[k].Tiers = MakeSlice(<<TierEntity("1", "1")>>)
    /\ lookups >= 1

\* What the i-th campaign is to hold, from the i-th element alone.
Linked(index, data) ==
    IF data = <<>> THEN NilSlice
    ELSE MakeSlice([k \in 1..Len(data) |-> MapGet(index, data[k].id)])

CampaignFor(item, included) ==
    [ID         |-> item.id,
     Attributes |-> item.attributes,
     Creator    |-> IF item.relationships.creator = Nil THEN Nil
                    ELSE MapGet(included.users, item.relationships.creator.id),
     Benefits   |-> Linked(included.benefits, item.relationships.benefits.elems),
     Goals      |-> Linked(included.goals, item.relationships.goals.elems),
     Tiers      |-> Linked(included.tiers, item.relationships.tiers.elems)]

\* C8: GetCampaigns returns one campaign per element of data, in order, the
\* i-th made of the i-th element's id, attributes and relationships and of
\* the one side-table; assembling an element leaves the side-table and the
\* campaigns of the other elements as they were.
C8_OnePerElementInOrder ==
    /\ []((op = "GetCampaigns" /\ err = NoError) =>
            /\ ~campaigns.isNil
            /\ Len(campaigns.elems) = Len(resp.data)
            /\ \A k \in 1..Len(resp.data) :
                  campaigns.elems[k] =
                      IF k <= idx THEN CampaignFor(resp.data[k], resp.included)
                      ELSE Nil
            /\ pc = "idle" => (result = campaigns /\ idx = Len(resp.data)))
    /\ [][(pc = "loop" /\ pc' = "loop") =>
            /\ resp' = resp
            /\ \A j \in 1..Len(campaigns.elems) :
                  j # idx + 1 => campaigns'.elems[j] = campaigns.elems[j]]_vars

\* Two elements came back, the first with its creator, the second with its
\* benefit and without attributes.
C8_Witness ==
    /\ Succeeded
    /\ op = "GetCampaigns"
    /\ Len(result.elems) = 2
    /\ result.elems[1].ID = "1"
    /\ result.elems[1].Creator = Entity("user", "1")
    /\ result.elems[1].Benefits = NilSlice
    /\ result.elems[2].ID = "2"
    /\ result.elems[2].Attributes = Nil
    /\ result.elems[2].Creator = Nil
    /\ result.elems[2].Benefits = MakeSlice(<<Entity("benefit", "1")>>)

====
